---- MODULE Spec2Model ----
(***************************************************************************)
(* PerDict (src/src/perdict.py): a dict subclass that mirrors its contents *)
(* to a JSON file.  The model keeps the dict's insertion order, the text   *)
(* json.dump leaves in the file (a complete object, or the part written    *)
(* before a value json cannot encode), and what each call returned or      *)
(* raised.                                                                 *)
(***************************************************************************)
EXTENDS Naturals, Sequences, FiniteSets, TLC

(* ---------------- bounds of the model ---------------- *)

\* Largest number of items the dict holds in the model.
MaxLen == 2
\* Largest number of items of a mapping passed to update(), save() or as defaults.
MaxPatch == 2

(* ---------------- Python values ---------------- *)

\* A str key s is [t |-> "str", s |-> s]; the int key 1 is [t |-> "int", s |-> "1"],
\* s being the text json.dump writes for it.
StrKeys == {[t |-> "str", s |-> "a"], [t |-> "str", s |-> "1"]}
IntKeys == {[t |-> "int", s |-> "1"]}
Keys == StrKeys \cup IntKeys
NoKey == [t |-> "none", s |-> ""]

\* Values json can encode (two str values), and the Ellipsis object `...`, which
\* it cannot and which is the default of pop's and setdefault's second parameter.
JsonVals == {"v1", "v2"}
Ellipsis == "Ellipsis"
Vals == JsonVals \cup {Ellipsis}

\* A dict is the sequence of its items in insertion order, keys distinct.
Item(k, v) == [k |-> k, v |-> v]
KeysOf(e) == {e[n].k : n \in 1..Len(e)}
Has(e, k) == k \in KeysOf(e)
IndexOf(e, k) == CHOOSE n \in 1..Len(e) : e[n].k = k
Get(e, k) == e[IndexOf(e, k)].v
ItemSet(e) == {e[n] : n \in 1..Len(e)}
\* dict.__eq__: same keys with equal values, whatever the order.
DictEq(a, b) == ItemSet(a) = ItemSet(b)

\* dict.__setitem__: a present key keeps its place, a new key goes last.
DictSet(e, k, v) ==
    IF Has(e, k) THEN [e EXCEPT ![IndexOf(e, k)].v = v] ELSE Append(e, Item(k, v))
\* dict.__delitem__ / dict.pop on a present key.
DictDel(e, k) ==
    LET n == IndexOf(e, k) IN SubSeq(e, 1, n - 1) \o SubSeq(e, n + 1, Len(e))
\* dict.setdefault: inserts only when the key is absent.
DictSetDefault(e, k, v) == IF Has(e, k) THEN e ELSE Append(e, Item(k, v))
\* dict.update(self, m): every item of m is assigned in m's order.
RECURSIVE DictUpdate(_, _)
DictUpdate(e, m) ==
    IF m = <<>> THEN e ELSE DictUpdate(DictSet(e, Head(m).k, Head(m).v), Tail(m))

\* The dicts with distinct keys from ks, values from vs and at most n items.
RECURSIVE DictsOver(_, _, _)
DictsOver(ks, vs, n) ==
    IF n = 0 \/ ks = {} THEN {<<>>}
    ELSE {<<>>} \cup
         UNION {{<<Item(k, v)>> \o r : r \in DictsOver(ks \ {k}, vs, n - 1)} :
                <<k, v>> \in ks \X vs}

(* ---------------- the backing file ---------------- *)

\* kind "absent": no file; "empty": zero bytes; "object": one JSON object,
\* body its members in the order written; "partial": the text json.dump wrote
\* before it raised, the last member of body being a key with no value.
\* Files the class never writes: "pairs", one JSON array of [key, value] arrays
\* with str keys (the empty array included), body its pairs; "scalar", one JSON
\* number.
AbsentFile == [kind |-> "absent", body |-> <<>>]
EmptyFile == [kind |-> "empty", body |-> <<>>]
Member(s, v) == [k |-> s, v |-> v]

\* json.dump encodes a str or int key as its text and a str value as itself.
Encodable(v) == v \in JsonVals
DumpOk(e) == \A n \in 1..Len(e) : Encodable(e[n].v)
FirstBad(e) == CHOOSE n \in 1..Len(e) :
    /\ ~Encodable(e[n].v)
    /\ \A j \in 1..(n - 1) : Encodable(e[j].v)
\* Mutant of Dump: an empty dict leaves the file truncated to zero bytes.
Dump_truncate(e) ==
    IF e = <<>> THEN EmptyFile
    ELSE IF DumpOk(e)
    THEN [kind |-> "object", body |-> [n \in 1..Len(e) |-> Member(e[n].k.s, e[n].v)]]
    ELSE [kind |-> "partial",
          body |-> [n \in 1..FirstBad(e) |->
                      Member(e[n].k.s, IF n = FirstBad(e) THEN "" ELSE e[n].v)]]

\* open(path, 'w') truncates, then json.dump writes member after member and
\* raises TypeError at the first value it cannot encode.
Dump(e) ==
    IF DumpOk(e)
    THEN [kind |-> "object", body |-> [n \in 1..Len(e) |-> Member(e[n].k.s, e[n].v)]]
    ELSE [kind |-> "partial",
          body |-> [n \in 1..FirstBad(e) |->
                      Member(e[n].k.s, IF n = FirstBad(e) THEN "" ELSE e[n].v)]]

\* json.load of an object: keys are str, a repeated key keeps its first place and
\* its last value.
RECURSIVE LoadMembers(_, _)
LoadMembers(e, b) ==
    IF b = <<>> THEN e
    ELSE LoadMembers(DictSet(e, [t |-> "str", s |-> Head(b).k], Head(b).v), Tail(b))
\* Mutant of Load: the parsed object is not put into the dict.
Load_lost(f) == <<>>
Loadable(f) == f.kind = "object"
Load(f) == LoadMembers(<<>>, f.body)

ScalarFile == [kind |-> "scalar", body |-> <<>>]
PairsFile(e) == [kind |-> "pairs", body |-> [n \in 1..Len(e) |-> Member(e[n].k.s, e[n].v)]]

(* ---------------- state ---------------- *)

\* The names a caller binds PerDict objects to; Spec uses the first alone.
Single == {"p"}
Insts == {"p", "q"}

VARIABLES
    file,   \* the content of the file at `path`
    obj,    \* per name: whether it is bound, the object's items, its autosave
            \* attribute, and whether the caller is inside `with obj:`
    last    \* the latest call: object, method, class of its arguments, the
            \* mapping passed (to update, save, or as defaults), the exception
            \* it raised ("None" if none) and the value it returned

vars == <<file, obj, last>>

Unbound == [live |-> FALSE, entries |-> <<>>, autosave |-> FALSE, scope |-> FALSE]

NoRet == [k |-> NoKey, v |-> "-"]
Ret(v) == [k |-> NoKey, v |-> v]
RetPair(k, v) == [k |-> k, v |-> v]
Called(i, op, arg, data, exc, ret) ==
    [inst |-> i, op |-> op, arg |-> arg, data |-> data, exc |-> exc,
     ret |-> IF exc = "None" THEN ret ELSE NoRet]

\* Mappings a caller passes: to update() and save() with any keys and values,
\* as **defaults with str keys (keyword names).
PatchVals == {"v2", Ellipsis}
Patches == DictsOver(Keys, PatchVals, MaxPatch)
Defaults == DictsOver(StrKeys, PatchVals, MaxPatch)
\* save's argument: None, or a mapping.
NoData == [given |-> FALSE, items |-> <<>>]
SaveArgs == {NoData} \cup {[given |-> TRUE, items |-> m] : m \in Patches}
InitFiles ==
    {AbsentFile, EmptyFile} \cup {Dump(e) : e \in DictsOver(Keys, JsonVals, MaxLen)}

Init ==
    /\ file \in InitFiles
    /\ obj = [i \in Insts |-> Unbound]
    /\ last = Called("-", "none", "-", <<>>, "None", NoRet)

(* ---------------- PerDict ---------------- *)

\* Mutant of Mutated: the file is written before the dict is changed.
Mutated_stale(i, op, arg, data, e2, write, ret) ==
    /\ Len(e2) <= MaxLen
    /\ obj' = [obj EXCEPT ![i].entries = e2]
    /\ file' = IF write THEN Dump(obj[i].entries) ELSE file
    /\ last' = Called(i, op, arg, data,
                      IF write /\ ~DumpOk(obj[i].entries) THEN "TypeError" ELSE "None",
                      ret)

\* Mutant of Mutated: when the write raises, the dict is put back as it was.
Mutated_rollback(i, op, arg, data, e2, write, ret) ==
    /\ Len(e2) <= MaxLen
    /\ obj' = [obj EXCEPT ![i].entries =
                 IF write /\ ~DumpOk(e2) THEN obj[i].entries ELSE e2]
    /\ file' = IF write THEN Dump(e2) ELSE file
    /\ last' = Called(i, op, arg, data,
                      IF write /\ ~DumpOk(e2) THEN "TypeError" ELSE "None", ret)

\* The in-memory change e2 is made; then, if `write`, save() runs, and a value
\* json cannot encode makes it raise TypeError with the file cut short.
Mutated(i, op, arg, data, e2, write, ret) ==
    /\ Len(e2) <= MaxLen
    /\ obj' = [obj EXCEPT ![i].entries = e2]
    /\ file' = IF write THEN Dump(e2) ELSE file
    /\ last' = Called(i, op, arg, data,
                      IF write /\ ~DumpOk(e2) THEN "TypeError" ELSE "None", ret)

\* The dict method raised before anything changed.
Raised(i, op, arg, exc) ==
    /\ UNCHANGED <<file, obj>>
    /\ last' = Called(i, op, arg, <<>>, exc, NoRet)

HitOrMiss(e, k) == IF Has(e, k) THEN "hit" ELSE "miss"

\* Mutant of set_defaults: the defaults are assigned over the loaded items.
RECURSIVE set_defaults_override(_, _)
set_defaults_override(e, defaults) ==
    IF defaults = <<>> THEN e
    ELSE set_defaults_override(DictSet(e, Head(defaults).k, Head(defaults).v),
                               Tail(defaults))

\* set_defaults: dict.setdefault for every default, in order.
RECURSIVE set_defaults(_, _)
set_defaults(e, defaults) ==
    IF defaults = <<>> THEN e
    ELSE set_defaults(DictSetDefault(e, Head(defaults).k, Head(defaults).v),
                      Tail(defaults))

\* Mutant of autosaves: the attribute is not consulted.
autosaves_always(i) == TRUE

\* _autosave: save() runs iff the autosave attribute is true.
autosaves(i) == obj[i].autosave

\* Mutant of Touch: the file is opened for writing, which empties it.
Touch_truncate(f) == EmptyFile

\* self.path.touch(): a missing file is created with no content, an existing
\* one keeps its content.
Touch(f) == IF f.kind = "absent" THEN EmptyFile ELSE f

\* The items after lines 49-54: the file's when its size is not 0, then the
\* defaults merged in.
InitEntries(f, defaults) ==
    set_defaults(IF f.kind = "empty" THEN <<>> ELSE Load(f), defaults)

\* PerDict(path, autosave, **defaults) bound to name i.  touch() creates a
\* missing file; a file of non-zero size is parsed and loaded; the defaults are
\* merged; then _autosave.  json.load raises JSONDecodeError on text cut short;
\* dict.update(self, data) raises TypeError on a number and takes an array of
\* pairs as it takes a mapping.  When json.load, dict.update or save raises, no
\* object is made and the name keeps what it was bound to.
PerDictInit(i, as, defaults) ==
    LET touched == Touch(file)
        arg == IF defaults = <<>> THEN "nodefaults" ELSE "defaults"
        e1 == InitEntries(touched, defaults)
    IN  /\ ~obj[i].scope
        /\ IF touched.kind \in {"partial", "scalar"}
           THEN /\ file' = touched
                /\ obj' = obj
                /\ last' = Called(i, "init", arg, defaults,
                                  IF touched.kind = "partial" THEN "JSONDecodeError"
                                  ELSE "TypeError",
                                  NoRet)
           ELSE /\ Len(e1) <= MaxLen
                /\ file' = IF as THEN Dump(e1) ELSE touched
                /\ IF as /\ ~DumpOk(e1)
                   THEN /\ obj' = obj
                        /\ last' = Called(i, "init", arg, defaults, "TypeError", NoRet)
                   ELSE /\ obj' = [obj EXCEPT ![i] =
                                     [live |-> TRUE, entries |-> e1,
                                      autosave |-> as, scope |-> FALSE]]
                        /\ last' = Called(i, "init", arg, defaults, "None", Ret("self"))

\* obj.autosave = b
SetAutosave(i, b) ==
    /\ obj[i].live
    /\ obj' = [obj EXCEPT ![i].autosave = b]
    /\ file' = file
    /\ last' = Called(i, "autosave=", "-", <<>>, "None", Ret("None"))

\* obj.set_defaults(defaults) called on a live object: dict.setdefault for every
\* item, and no _autosave, so nothing is written whatever the attribute.
SetDefaults(i, defaults) ==
    /\ obj[i].live
    /\ Mutated(i, "set_defaults", "-", <<>>,
               set_defaults(obj[i].entries, defaults), FALSE, Ret("None"))

\* obj |= m: dict.__ior__ is inherited as it is, so the items of m are assigned
\* and nothing is written whatever the attribute.
ior(i, m) ==
    /\ obj[i].live
    /\ Mutated(i, "ior", "-", <<>>, DictUpdate(obj[i].entries, m), FALSE, Ret("self"))

\* Mutant of setitem: a value json cannot encode is refused at assignment.
setitem_eager(i, k, v) ==
    /\ obj[i].live
    /\ IF Encodable(v)
       THEN Mutated(i, "set", HitOrMiss(obj[i].entries, k), <<>>,
                    DictSet(obj[i].entries, k, v), autosaves(i), Ret("None"))
       ELSE Raised(i, "set", HitOrMiss(obj[i].entries, k), "TypeError")

\* __setitem__
setitem(i, k, v) ==
    /\ obj[i].live
    /\ Mutated(i, "set", HitOrMiss(obj[i].entries, k), <<>>,
               DictSet(obj[i].entries, k, v), autosaves(i), Ret("None"))

\* Mutant of delitem: _autosave is not called after the deletion.
delitem_nosave(i, k) ==
    /\ obj[i].live
    /\ IF Has(obj[i].entries, k)
       THEN Mutated(i, "del", "hit", <<>>, DictDel(obj[i].entries, k), FALSE,
                    Ret("None"))
       ELSE Raised(i, "del", "miss", "KeyError")

\* __delitem__: dict.__delitem__ raises KeyError on an absent key.
delitem(i, k) ==
    /\ obj[i].live
    /\ IF Has(obj[i].entries, k)
       THEN Mutated(i, "del", "hit", <<>>, DictDel(obj[i].entries, k), autosaves(i),
                    Ret("None"))
       ELSE Raised(i, "del", "miss", "KeyError")

\* update(m)
update(i, m) ==
    /\ obj[i].live
    /\ Mutated(i, "update", "-", m,
               DictUpdate(obj[i].entries, m), autosaves(i), Ret("None"))

\* clear()
clear(i) ==
    /\ obj[i].live
    /\ Mutated(i, "clear", "-", <<>>, <<>>, autosaves(i), Ret("None"))

\* Mutant of pop: an absent key is stored with the default, as setdefault does.
pop_store(i, k, default) ==
    LET e == obj[i].entries IN
    /\ obj[i].live
    /\ Mutated(i, "pop", HitOrMiss(e, k), <<>>,
               IF Has(e, k) THEN DictDel(e, k) ELSE Append(e, Item(k, default)),
               autosaves(i), Ret(IF Has(e, k) THEN Get(e, k) ELSE default))

\* pop(key, default = ...): dict.pop(self, key, default) always has a default,
\* so an absent key returns it; _autosave follows in both cases.
pop(i, k, default) ==
    LET e == obj[i].entries IN
    /\ obj[i].live
    /\ Mutated(i, "pop", HitOrMiss(e, k), <<>>,
               IF Has(e, k) THEN DictDel(e, k) ELSE e, autosaves(i),
               Ret(IF Has(e, k) THEN Get(e, k) ELSE default))

\* Mutant of popitem: on an empty dict nothing is raised and _autosave runs.
popitem_autosave(i) ==
    LET e == obj[i].entries IN
    /\ obj[i].live
    /\ Mutated(i, "popitem", "-", <<>>,
               IF e = <<>> THEN e ELSE SubSeq(e, 1, Len(e) - 1), autosaves(i),
               IF e = <<>> THEN Ret("None") ELSE RetPair(e[Len(e)].k, e[Len(e)].v))

\* popitem(): dict.popitem raises KeyError on an empty dict, else removes the
\* item inserted last.
popitem(i) ==
    LET e == obj[i].entries IN
    /\ obj[i].live
    /\ IF e = <<>>
       THEN Raised(i, "popitem", "-", "KeyError")
       ELSE Mutated(i, "popitem", "-", <<>>, SubSeq(e, 1, Len(e) - 1), autosaves(i),
                    RetPair(e[Len(e)].k, e[Len(e)].v))

\* setdefault(key, default = ...): _autosave runs iff the value returned equals
\* the default.
setdefault(i, k, default) ==
    LET e == obj[i].entries
        e2 == DictSetDefault(e, k, default)
        result == Get(e2, k)
    IN  /\ obj[i].live
        /\ Mutated(i, "setdefault",
                   IF ~Has(e, k) THEN "miss"
                   ELSE IF result = default THEN "hit-equal" ELSE "hit-other",
                   <<>>, e2, result = default /\ autosaves(i), Ret(result))

\* Mutant of SaveLoop: an item whose key is present is skipped.
RECURSIVE SaveLoop_keep(_, _, _)
SaveLoop_keep(e, data, as) ==
    IF data = <<>> THEN e
    ELSE LET e1 == DictSetDefault(e, Head(data).k, Head(data).v) IN
         IF as /\ ~DumpOk(e1) THEN e1 ELSE SaveLoop_keep(e1, Tail(data), as)

\* The loop of save(data): self[k] = v for every item, each followed by
\* _autosave; the first failing write ends the loop.
RECURSIVE SaveLoop(_, _, _)
SaveLoop(e, data, as) ==
    IF data = <<>> THEN e
    ELSE LET e1 == DictSet(e, Head(data).k, Head(data).v) IN
         IF as /\ ~DumpOk(e1) THEN e1 ELSE SaveLoop(e1, Tail(data), as)

\* save(data = None): the loop, then the whole dict is dumped whatever the
\* autosave attribute.  (When a write of the loop raised, the file holds that
\* write's text, which is Dump of the items applied so far.)
save(i, data) ==
    /\ obj[i].live
    /\ Mutated(i, "save", IF data.given THEN "patch" ELSE "nopatch",
               data.items, SaveLoop(obj[i].entries, data.items, autosaves(i)), TRUE,
               Ret("None"))

\* __enter__ returns self.
enter(i) ==
    /\ obj[i].live
    /\ ~obj[i].scope
    /\ obj' = [obj EXCEPT ![i].scope = TRUE]
    /\ file' = file
    /\ last' = Called(i, "enter", "-", <<>>, "None", Ret("self"))

\* Mutant of exit: _autosave is called in place of save.
exit_autosave(i, exc) ==
    /\ obj[i].live
    /\ obj[i].scope
    /\ obj' = [obj EXCEPT ![i].scope = FALSE]
    /\ file' = IF autosaves(i) THEN Dump(obj[i].entries) ELSE file
    /\ last' = Called(i, "exit", IF exc = "None" THEN "normal" ELSE "error", <<>>,
                      IF autosaves(i) /\ ~DumpOk(obj[i].entries)
                      THEN "TypeError" ELSE exc,
                      Ret("None"))

\* __exit__(exc_type, ...): save(), and None is returned, so an exception of
\* the block (exc) goes on propagating unless save itself raises.
exit(i, exc) ==
    /\ obj[i].live
    /\ obj[i].scope
    /\ obj' = [obj EXCEPT ![i].scope = FALSE]
    /\ file' = Dump(obj[i].entries)
    /\ last' = Called(i, "exit", IF exc = "None" THEN "normal" ELSE "error", <<>>,
                      IF DumpOk(obj[i].entries) THEN exc ELSE "TypeError",
                      Ret("None"))

BlockExcs == {"None", "BlockError"}

Next ==
    \E i \in Single :
        \/ \E as \in BOOLEAN, d \in Defaults : PerDictInit(i, as, d)
        \/ \E b \in BOOLEAN : SetAutosave(i, b)
        \/ \E k \in Keys, v \in Vals : setitem(i, k, v)
        \/ \E k \in Keys : delitem(i, k)
        \/ \E m \in Patches : update(i, m)
        \/ clear(i)
        \/ \E k \in Keys, v \in Vals : pop(i, k, v)
        \/ popitem(i)
        \/ \E k \in Keys, v \in Vals : setdefault(i, k, v)
        \/ \E data \in SaveArgs : save(i, data)
        \/ enter(i)
        \/ \E exc \in BlockExcs : exit(i, exc)
        \/ \E d \in Defaults : SetDefaults(i, d)
        \/ \E m \in Patches : ior(i, m)

Spec == Init /\ [][Next]_vars

\* Files found at `path` that no PerDict wrote: text cut short, a number, an
\* array of pairs.
CorruptFiles ==
    {ScalarFile}
    \cup {PairsFile(e) : e \in DictsOver(StrKeys, JsonVals, MaxLen)}
    \cup {Dump(e) : e \in {d \in DictsOver(Keys, Vals, MaxLen) : ~DumpOk(d)}}

InitCorrupt ==
    /\ file \in InitFiles \cup CorruptFiles
    /\ obj = [i \in Insts |-> Unbound]
    /\ last = Called("-", "none", "-", <<>>, "None", NoRet)

\* Smaller sets of values and mappings, for the specifications below.
TwoVals == {"v1", Ellipsis}
TwoPatches == DictsOver(StrKeys, TwoVals, 1)
TwoSaveArgs == {NoData} \cup {[given |-> TRUE, items |-> m] : m \in TwoPatches}

\* One object started on any file, the corrupt ones included, and used with
\* the smaller sets of keys, values and mappings.
NextCorrupt ==
    \E i \in Single :
        \/ \E as \in BOOLEAN, d \in Defaults : PerDictInit(i, as, d)
        \/ \E b \in BOOLEAN : SetAutosave(i, b)
        \/ \E k \in StrKeys, v \in TwoVals : setitem(i, k, v)
        \/ \E k \in StrKeys : delitem(i, k)
        \/ \E m \in TwoPatches : update(i, m)
        \/ clear(i)
        \/ \E k \in StrKeys : pop(i, k, "v1")
        \/ popitem(i)
        \/ \E k \in StrKeys : setdefault(i, k, "v1")
        \/ \E data \in TwoSaveArgs : save(i, data)
        \/ enter(i)
        \/ \E exc \in BlockExcs : exit(i, exc)
        \/ \E d \in TwoPatches : SetDefaults(i, d)
        \/ \E m \in TwoPatches : ior(i, m)

SpecCorrupt == InitCorrupt /\ [][NextCorrupt]_vars

\* Two objects, bound to the names p and q, constructed on the same path and
\* used in any interleaving of whole calls (one thread: a call runs to its end
\* before the next starts); no `with` block is entered.
InitTwo ==
    /\ file \in {AbsentFile} \cup {Dump(e) : e \in DictsOver(StrKeys, {"v1"}, 1)}
    /\ obj = [i \in Insts |-> Unbound]
    /\ last = Called("-", "none", "-", <<>>, "None", NoRet)

NextTwo ==
    \E i \in Insts :
        \/ \E as \in BOOLEAN : PerDictInit(i, as, <<>>)
        \/ \E b \in BOOLEAN : SetAutosave(i, b)
        \/ \E k \in StrKeys, v \in TwoVals : setitem(i, k, v)
        \/ \E k \in StrKeys : delitem(i, k)
        \/ \E m \in TwoPatches : update(i, m)
        \/ clear(i)
        \/ \E k \in StrKeys : pop(i, k, "v1")
        \/ popitem(i)
        \/ \E k \in StrKeys : setdefault(i, k, "v1")
        \/ \E data \in TwoSaveArgs : save(i, data)
        \/ \E d \in TwoPatches : SetDefaults(i, d)
        \/ \E m \in TwoPatches : ior(i, m)

SpecTwo == InitTwo /\ [][NextTwo]_vars

(* ---------------- properties ---------------- *)

P == "p"
Entries == obj[P].entries
Auto == obj[P].autosave
MutOps == {"set", "del", "update", "clear", "pop", "popitem", "setdefault"}
StrKeyed(e) == KeysOf(e) \subseteq StrKeys
\* Reading f and deserializing it gives a dict equal to e.
FileShows(f, e) == Loadable(f) /\ DictEq(Load(f), e)
FileKeys(f) == {f.body[n].k : n \in 1..Len(f.body)}
Returned == last.exc = "None"

\* The dict has str keys and values json can encode.
JsonDict(e) == StrKeyed(e) /\ DumpOk(e)

\* C1 as stated: after every mutating call that returns with autosave true, the
\* dict having str keys and JSON values, the file deserializes to the items in
\* memory, from any reachable state.
C1_FidelityFromAnyState ==
    (last.op \in MutOps /\ Returned /\ Auto /\ JsonDict(Entries))
        => FileShows(file, Entries)

\* C1 amended: the same for every mutating call except a setdefault that found
\* the key holding a value different from the default, which writes nothing.
C1_AutosaveFidelity ==
    (last.op \in MutOps /\ Returned /\ Auto /\ JsonDict(Entries)
        /\ ~(last.op = "setdefault" /\ last.arg = "hit-other"))
        => FileShows(file, Entries)

C1_Witness ==
    /\ last.op = "pop" /\ last.arg = "miss" /\ Returned /\ Auto
    /\ Len(Entries) = 2 /\ StrKeyed(Entries)
    /\ FileShows(file, Entries)

\* C2: while autosave is false a mutating call changes nothing but the items in
\* memory, and the file changes only by save() or on leaving a `with` block (or
\* when a new object is constructed on the path).
C2_AutosaveSuppression ==
    [][(obj[P].live /\ ~Auto) =>
          /\ last'.op \in MutOps =>
                /\ file' = file
                /\ obj' = [obj EXCEPT ![P].entries = obj'[P].entries]
          /\ file' # file => last'.op \in {"save", "exit", "init"}]_vars

C2_Witness ==
    /\ last.op = "clear" /\ Returned /\ ~Auto
    /\ Entries = <<>>
    /\ file.kind = "object" /\ Len(file.body) = 2

\* Every item of the mapping m is in e with m's value.
PatchApplied(m, e) == \A n \in 1..Len(m) : Has(e, m[n].k) /\ Get(e, m[n].k) = m[n].v
EmptyObject == [kind |-> "object", body |-> <<>>]

\* C3 as stated: after save(data) returned, whatever autosave is, every item of
\* data is in the dict and the file deserializes to the dict.
C3_SaveAnyKeys ==
    (last.op = "save" /\ Returned)
        => PatchApplied(last.data, Entries) /\ FileShows(file, Entries)

\* C3 amended: after save(data) returned, whatever autosave is, every item of
\* data is in the dict, and the file deserializes to the dict provided every
\* key of the dict is a str (json writes an int key as its text).
C3_SaveUnconditional ==
    (last.op = "save" /\ Returned)
        => /\ PatchApplied(last.data, Entries)
           /\ file.kind = "object"
           /\ StrKeyed(Entries) => FileShows(file, Entries)

C3_Witness ==
    /\ last.op = "save" /\ last.arg = "patch" /\ Returned /\ ~Auto
    /\ Len(last.data) = 2 /\ StrKeyed(Entries)
    /\ FileShows(file, Entries)

\* C4: after a construction that returned, the dict has the keys of the file's
\* object and of the defaults, each key of the file with the file's value and
\* each other key with the default's; on a missing or zero-length file the dict
\* equals the defaults.
C4_DefaultPrecedence ==
    [][(last'.op = "init" /\ last'.exc = "None") =>
          LET e == obj'[P].entries
              d == last'.data
              loaded == IF file.kind = "object" THEN Load(file) ELSE <<>>
          IN  /\ KeysOf(e) = KeysOf(loaded) \cup KeysOf(d)
              /\ \A k \in KeysOf(e) :
                    Get(e, k) = IF Has(loaded, k) THEN Get(loaded, k) ELSE Get(d, k)
              /\ file.kind \in {"absent", "empty"} => DictEq(e, d)]_vars

C4_Witness ==
    /\ last.op = "init" /\ Returned /\ ~Auto
    /\ last.data = <<Item([t |-> "str", s |-> "a"], "v2"),
                     Item([t |-> "str", s |-> "1"], "v2")>>
    /\ file = [kind |-> "object", body |-> <<Member("a", "v1")>>]
    /\ Entries = <<Item([t |-> "str", s |-> "a"], "v1"),
                   Item([t |-> "str", s |-> "1"], "v2")>>

\* C5: a construction with autosave true that returned leaves a file that
\* deserializes to the new dict; a construction with autosave false leaves an
\* existing file as it was and a missing file created with no content.
C5_ConstructionPersists ==
    [][(last'.op = "init" /\ last'.exc = "None") =>
          IF obj'[P].autosave
          THEN FileShows(file', obj'[P].entries)
          ELSE file' = IF file = AbsentFile THEN EmptyFile ELSE file]_vars

C5_Witness ==
    /\ last.op = "init" /\ last.arg = "defaults" /\ Returned /\ Auto
    /\ Len(Entries) = 2 /\ Len(last.data) = 1
    /\ FileShows(file, Entries)

\* C6 as stated: __enter__ returns the object, and after leaving the block, with
\* autosave false too, the file deserializes to the dict.
C6_ScopedFlushAnyDict ==
    /\ last.op = "enter" => last.ret = Ret("self")
    /\ (last.op = "exit" /\ ~Auto) => FileShows(file, Entries)

\* C6 amended: __enter__ returns the object; __exit__ runs save() on a normal
\* exit and on an exit by an error, whatever autosave is; when the dict has str
\* keys and values json can encode, the file then deserializes to the dict and
\* the error of the block, if any, goes on propagating.
C6_ScopedFlush ==
    /\ last.op = "enter" => last.ret = Ret("self")
    /\ last.op = "exit" =>
          /\ file.kind \in {"object", "partial"}
          /\ DumpOk(Entries) <=> file.kind = "object"
          /\ JsonDict(Entries) =>
                /\ FileShows(file, Entries)
                /\ last.exc = IF last.arg = "error" THEN "BlockError" ELSE "None"

C6_Witness ==
    /\ last.op = "exit" /\ last.arg = "error" /\ ~Auto
    /\ Len(Entries) = 2 /\ JsonDict(Entries)
    /\ FileShows(file, Entries) /\ last.exc = "BlockError"

\* The latest call wrote the whole dict to the file and returned.
Saved ==
    /\ Returned
    /\ \/ last.op \in {"save", "exit"}
       \/ /\ last.op \in MutOps \cup {"init"}
          /\ Auto
          /\ ~(last.op = "setdefault" /\ last.arg = "hit-other")

\* C7: once a dict M with str keys and JSON values has been saved, by autosave
\* or by save(), a construction on the path with no defaults returns and its
\* dict equals M.
C7_RoundTrip ==
    [][(Saved /\ JsonDict(Entries) /\ last'.op = "init" /\ last'.data = <<>>)
          => (last'.exc = "None" /\ DictEq(obj'[P].entries, Entries))]_vars

C7_Witness ==
    /\ last.op = "init" /\ last.data = <<>> /\ Returned /\ ~Auto
    /\ Len(Entries) = 2 /\ file = Dump(Entries)

\* C8: clear() with autosave on leaves an empty dict and a file holding the
\* empty JSON object, not zero bytes; a construction on that file then raises
\* no JSONDecodeError and, when it returns, its dict holds the defaults alone.
C8_ClearWritesEmptyObject ==
    /\ [][(last'.op = "clear" /\ obj'[P].autosave) =>
             /\ last'.exc = "None"
             /\ obj'[P].entries = <<>>
             /\ file' = EmptyObject]_vars
    /\ [][(last.op = "clear" /\ Auto /\ last'.op = "init") =>
             /\ last'.exc # "JSONDecodeError"
             /\ last'.exc = "None" => DictEq(obj'[P].entries, last'.data)
             /\ last'.data = <<>> => last'.exc = "None"]_vars

C8_Witness ==
    /\ last.op = "clear" /\ Returned /\ Auto
    /\ Entries = <<>> /\ file = EmptyObject

\* C9: pop(key) without a default on an absent key raises KeyError and leaves
\* the dict unchanged.
C9_PopAbsentRaises ==
    [][last'.op = "pop" =>
          \A k \in Keys :
              (~Has(Entries, k) /\ pop(P, k, Ellipsis))
                  => (last'.exc = "KeyError" /\ obj' = obj)]_vars

\* C10 as stated: pop(k, fallback) on an absent key returns fallback, leaves the
\* dict unchanged and does not alter the set of keys of the object in the file,
\* from any reachable state.
C10_PopDefaultAnyState ==
    [][last'.op = "pop" =>
          \A k \in Keys, d \in JsonVals :
              (~Has(Entries, k) /\ file.kind = "object" /\ pop(P, k, d))
                  => /\ last'.exc = "None" /\ last'.ret = Ret(d)
                     /\ obj' = obj
                     /\ file'.kind = "object"
                     /\ FileKeys(file') = FileKeys(file)]_vars

\* C10 amended: pop(k, fallback) on an absent key leaves the dict unchanged;
\* with autosave false, or with the file already holding the dump of the dict,
\* it returns fallback and the file stays as it was; with autosave true and the
\* file behind, it rewrites the file from the dict, so the file's keys become
\* the dict's, and returns fallback when every value can be encoded.
C10_PopDefault ==
    [][last'.op = "pop" =>
          \A k \in Keys, d \in JsonVals :
              (~Has(Entries, k) /\ pop(P, k, d))
                  => /\ obj' = obj
                     /\ (~Auto \/ (DumpOk(Entries) /\ file = Dump(Entries)))
                           => /\ last'.exc = "None" /\ last'.ret = Ret(d)
                              /\ file' = file
                     /\ (Auto /\ DumpOk(Entries))
                           => /\ last'.exc = "None" /\ last'.ret = Ret(d)
                              /\ file'.kind = "object"
                              /\ FileKeys(file') = {j.s : j \in KeysOf(Entries)}]_vars

C10_Witness ==
    /\ last.op = "pop" /\ last.arg = "miss" /\ Returned /\ last.ret = Ret("v1")
    /\ Auto /\ Len(Entries) = 2 /\ file = Dump(Entries)

\* C11: with autosave true, setdefault(key, default) rewrites the file from the
\* dict if and only if the key was absent; on a hit, whatever the value found
\* (equal to the default or not), the dict is unchanged and the file is not
\* written, so it stays as it was.
C11_SetdefaultWritesIffInserted ==
    [][(last'.op = "setdefault" /\ Auto) =>
          IF last'.arg = "miss"
          THEN /\ Len(obj'[P].entries) = Len(Entries) + 1
               /\ file' = Dump(obj'[P].entries)
          ELSE /\ obj' = obj
               /\ file' = file]_vars

\* C12: popitem() on an empty dict raises KeyError, with autosave true or
\* false, and leaves the dict and the file as they were.
C12_PopitemEmptyRaises ==
    [][(last'.op = "popitem" /\ Entries = <<>>) =>
          /\ last'.exc = "KeyError"
          /\ obj' = obj
          /\ file' = file]_vars

\* popitem() raised on an empty dict with autosave true while the file held
\* two members: a write would have replaced them.
C12_Witness ==
    /\ last.op = "popitem" /\ last.exc = "KeyError" /\ Auto
    /\ Entries = <<>>
    /\ file.kind = "object" /\ Len(file.body) = 2

\* C13: a construction on a file that exists, is not empty and does not hold
\* one JSON object (text that does not parse, or a document whose top-level
\* value is an array or a scalar) raises, and no object is made.
C13_CorruptStoreRejected ==
    [][(last'.op = "init" /\ file.kind \notin {"absent", "empty", "object"}) =>
          /\ last'.exc # "None"
          /\ obj' = obj]_vars

\* The dicts an operation on e leaves when its whole change is made: for update
\* and save, every item of the mapping passed assigned.
WholeMutations(op, e, data) ==
    CASE op = "set" -> {DictSet(e, k, v) : <<k, v>> \in Keys \X Vals}
      [] op = "del" -> {DictDel(e, k) : k \in KeysOf(e)}
      [] op \in {"update", "save"} -> {DictUpdate(e, data)}
      [] op = "clear" -> {<<>>}
      [] op = "pop" -> {e} \cup {DictDel(e, k) : k \in KeysOf(e)}
      [] op = "popitem" -> IF e = <<>> THEN {e} ELSE {SubSeq(e, 1, Len(e) - 1)}
      [] op = "setdefault" -> {DictSetDefault(e, k, v) : <<k, v>> \in Keys \X Vals}
      [] OTHER -> {e}

\* C14: when set, delete, update, clear, pop, popitem, setdefault or save with a
\* patch raises (a failing write included), the dict holds either the whole
\* change of the operation or none of it; save(patch) never leaves some of the
\* patch's items assigned and others not.
C14_NoPartialMutation ==
    [][(last'.op \in MutOps \cup {"save"} /\ last'.exc # "None") =>
          \/ obj'[P].entries = Entries
          \/ obj'[P].entries \in WholeMutations(last'.op, Entries, last'.data)]_vars

\* C15: when the write of a mutating call raises, autosave being true, the call
\* raises TypeError, the dict holds the change the call made (nothing is rolled
\* back), and the file holds what that one write left, which does not
\* deserialize to the dict.
C15_MutateThenPersist ==
    [][(last'.op \in MutOps /\ last'.exc = "TypeError") =>
          LET e2 == obj'[P].entries IN
          /\ Auto
          /\ ~DumpOk(e2)
          /\ file' = Dump(e2)
          /\ ~FileShows(file', e2)
          /\ last'.op = "update" => e2 = DictUpdate(Entries, last'.data)
          /\ last'.op = "popitem" => e2 = SubSeq(Entries, 1, Len(Entries) - 1)
          /\ last'.op = "set" =>
                \A k \in Keys, v \in Vals :
                    setitem(P, k, v) => e2 = DictSet(Entries, k, v)
          /\ last'.op = "del" =>
                \A k \in Keys : delitem(P, k) => e2 = DictDel(Entries, k)
          /\ last'.op = "pop" =>
                \A k \in Keys, v \in Vals :
                    pop(P, k, v) =>
                        e2 = IF Has(Entries, k) THEN DictDel(Entries, k) ELSE Entries
          /\ last'.op = "setdefault" =>
                \A k \in Keys, v \in Vals :
                    setdefault(P, k, v) => e2 = DictSetDefault(Entries, k, v)]_vars

\* A set of a new key with a value json cannot encode raised with autosave
\* true: the key is in the dict and the file is cut short after its name.
C15_Witness ==
    /\ last.op = "set" /\ last.arg = "miss" /\ last.exc = "TypeError" /\ Auto
    /\ Entries = <<Item([t |-> "str", s |-> "a"], "v1"),
                   Item([t |-> "str", s |-> "1"], Ellipsis)>>
    /\ file = [kind |-> "partial", body |-> <<Member("a", "v1"), Member("1", "")>>]

\* C16: a set with a value json cannot encode always stores the value; it raises
\* TypeError only through the write of autosave, and with autosave false it
\* returns and leaves the file alone; TypeError comes from no call but one that
\* writes; and every save() made while such a value is in the dict raises.
C16_LazyValidation ==
    /\ [][last'.op = "set" =>
             \A k \in Keys :
                 setitem(P, k, Ellipsis) =>
                     /\ Has(obj'[P].entries, k)
                     /\ Get(obj'[P].entries, k) = Ellipsis
                     /\ last'.exc = IF Auto THEN "TypeError" ELSE "None"
                     /\ ~Auto => file' = file]_vars
    /\ [][last'.exc = "TypeError" =>
             \/ last'.op \in {"save", "exit"}
             \/ last'.op \in MutOps /\ Auto
             \/ last'.op = "init" /\ file' # file]_vars
    /\ [][(last'.op = "save" /\ ~DumpOk(obj'[P].entries)) =>
             /\ last'.exc = "TypeError"
             /\ ~Loadable(file')]_vars

\* save() raised with autosave false on a dict holding a value json cannot
\* encode, which an earlier call stored without raising.
C16_Witness ==
    /\ last.op = "save" /\ last.arg = "nopatch" /\ last.exc = "TypeError" /\ ~Auto
    /\ Len(Entries) = 2 /\ ~DumpOk(Entries)
    /\ file.kind = "partial"

\* Both names are bound to an object on the path.
BothOpen == obj["p"].live /\ obj["q"].live

\* The call l, made in the state with objects o, wrote the whole dict of its
\* object to the file and returned.
WroteOk(l, o) ==
    /\ l.exc = "None"
    /\ \/ l.op \in {"save", "exit"}
       \/ /\ l.op \in MutOps \cup {"init"}
          /\ o[l.inst].autosave
          /\ ~(l.op = "setdefault" /\ l.arg = "hit-other")

\* C17 as stated: with two objects on one path, a call on one never changes the
\* items of the other, and after any interleaving the file deserializes to the
\* items of the object that made the latest successful write: every successful
\* write leaves the file showing the writer's items, and every other call
\* leaves a file that deserializes as it was.
C17_LastWriteWins ==
    [][BothOpen =>
          /\ \A i \in Insts : last'.inst # i => obj'[i] = obj[i]
          /\ IF WroteOk(last', obj')
             THEN FileShows(file', obj'[last'.inst].entries)
             ELSE Loadable(file) => file' = file]_vars

\* The step is a construction with autosave true that returned, or a call on
\* the object, autosave true before and after, in which no write raised (the
\* call returned, raised KeyError, or let the error of a `with` block through).
SteadyStep ==
    \/ last'.op = "init" /\ last'.exc = "None" /\ obj'[P].autosave
    \/ /\ obj[P].live /\ Auto /\ obj'[P].autosave
       /\ last'.op \in MutOps \cup {"save", "enter", "exit"}
       /\ last'.exc \in {"None", "KeyError", "BlockError"}

\* C18 as stated: an object constructed with autosave true, the flag never
\* changed and no write failing, has after its construction and after every
\* call a file that is one JSON object and deserializes to the items in
\* memory: the construction establishes this and every later call keeps it.
C18_SteadyStateAnyKeys ==
    [][(SteadyStep /\ (last'.op # "init" => FileShows(file, Entries)))
          => FileShows(file', obj'[P].entries)]_vars

\* C18 amended: in the same runs the file always holds the dump of the items in
\* memory, one JSON object, which deserializes to them when every key is a str
\* (json writes the int key 1 as "1").
C18_SteadyState ==
    [][(SteadyStep
          /\ (last'.op # "init" => (file.kind = "object" /\ file = Dump(Entries))))
          => /\ file' = Dump(obj'[P].entries)
             /\ file'.kind = "object"
             /\ StrKeyed(obj'[P].entries) => FileShows(file', obj'[P].entries)]_vars

\* A setdefault that found the key with another value, and so wrote nothing,
\* with autosave true and the file holding the two items in memory.
C18_Witness ==
    /\ last.op = "setdefault" /\ last.arg = "hit-other" /\ Returned /\ Auto
    /\ Len(Entries) = 2 /\ StrKeyed(Entries)
    /\ file = Dump(Entries) /\ FileShows(file, Entries)

\* C19: when a write raises because a value cannot be serialized (in save(), in
\* the autosave of a mutating call or of a construction, or on leaving a `with`
\* block), a file that held a JSON object holds what it held before that write,
\* so that a construction on the path loads the items saved last.  (save with
\* a patch and autosave true makes several writes in one call and is left out.)
C19_FailedSavePreservesFile ==
    [][(last'.exc = "TypeError" /\ file.kind = "object"
          /\ ~(last'.op = "save" /\ last'.arg = "patch"))
          => file' = file]_vars

====
